---- MODULE Spec2Model ----
(***************************************************************************)
(* install_appimage.py: move an AppImage into ~/Applications, extract an   *)
(* icon from it through a scratch directory, and write a .desktop launcher.*)
(* The file system is modelled as a record; one run of install_appimage is *)
(* a sequence of steps driven by pc.  File names are sequences of          *)
(* one-character strings so that stem, suffix, lower, replace, title and   *)
(* the lexicographic sort of icon paths are computed, not assumed.         *)
(***************************************************************************)
EXTENDS Integers, Sequences, FiniteSets, TLC

\* ------------------------------------------------------------------------
\* Bounds
\* ------------------------------------------------------------------------
\* number of invocations of the script in one behaviour
MaxRuns == 2

\* ------------------------------------------------------------------------
\* Strings (str methods used by the script)
\* ------------------------------------------------------------------------
LowerAlpha ==
  <<"a","b","c","d","e","f","g","h","i","j","k","l","m",
    "n","o","p","q","r","s","t","u","v","w","x","y","z">>

UpperAlpha ==
  <<"A","B","C","D","E","F","G","H","I","J","K","L","M",
    "N","O","P","Q","R","S","T","U","V","W","X","Y","Z">>

\* the characters that occur, in code point order (str comparison)
CodeOrder ==
  <<" ", "-", ".", "/", "0","1","2","3","4","5","6","7","8","9", "@">>
  \o UpperAlpha \o <<"_">> \o LowerAlpha

IndexOf(seq, c) == CHOOSE i \in 1..Len(seq) : seq[i] = c

IsLower(c) == \E i \in 1..Len(LowerAlpha) : LowerAlpha[i] = c

IsUpper(c) == \E i \in 1..Len(UpperAlpha) : UpperAlpha[i] = c

IsCased(c) == IsLower(c) \/ IsUpper(c)

ToLower(c) == IF IsUpper(c) THEN LowerAlpha[IndexOf(UpperAlpha, c)] ELSE c

ToUpper(c) == IF IsLower(c) THEN UpperAlpha[IndexOf(LowerAlpha, c)] ELSE c

Ord(c) == IndexOf(CodeOrder, c)

\* str.lower()
lower(s) == [i \in 1..Len(s) |-> ToLower(s[i])]

\* str.replace(old, new) for one-character old and new
replace(s, old, new) == [i \in 1..Len(s) |-> IF s[i] = old THEN new ELSE s[i]]

\* str.title(): a cased character is upper-cased when it follows an uncased
\* character (or starts the string) and lower-cased otherwise
title(s) ==
  [i \in 1..Len(s) |->
     IF i = 1 \/ ~IsCased(s[i-1]) THEN ToUpper(s[i]) ELSE ToLower(s[i])]

\* str.rfind(c), 1-based; 0 when c does not occur
rfind(s, c) ==
  IF \E i \in 1..Len(s) : s[i] = c
  THEN CHOOSE i \in 1..Len(s) : s[i] = c /\ \A j \in (i+1)..Len(s) : s[j] # c
  ELSE 0

\* fault variant of stem: the suffix is not stripped
stem_WholeName(name) == name

\* PurePath.stem: the name without its last suffix
stem(name) ==
  LET j == rfind(name, ".")
  IN  IF 1 < j /\ j < Len(name) THEN SubSeq(name, 1, j - 1) ELSE name

\* PurePath.suffix: the last suffix, with its dot, or the empty string
suffix(name) ==
  LET j == rfind(name, ".")
  IN  IF 1 < j /\ j < Len(name) THEN SubSeq(name, j, Len(name)) ELSE <<>>

EndsWith(s, t) ==
  Len(s) >= Len(t) /\ SubSeq(s, Len(s) - Len(t) + 1, Len(s)) = t

\* a < b as Python compares str: by code point, a proper prefix first
StrLess(a, b) ==
  \E k \in 1..(Len(b)) :
     /\ \A i \in 1..(k-1) : i <= Len(a) /\ a[i] = b[i]
     /\ \/ k = Len(a) + 1
        \/ k <= Len(a) /\ Ord(a[k]) < Ord(b[k])

\* ------------------------------------------------------------------------
\* Paths.  A path string is [dir, name]; dir "" is a bare identifier.
\* ------------------------------------------------------------------------
AppsDir == "~/Applications"

IconsDir == "~/.local/share/icons"

LaunchDir == "~/.local/share/applications"

Str(dir, name) == [dir |-> dir, name |-> name]

\* the fallback icon identifier
Fallback == Str("", <<"application-x-executable">>)

MarkerSuffix == <<"_","a","p","p","i","m","a","g","e","_","i","c","o","n">>

DesktopExt == <<".","d","e","s","k","t","o","p">>

\* ------------------------------------------------------------------------
\* Fixture: package file names, and the icon trees bundled in the packages
\* ------------------------------------------------------------------------
nEx == <<"M","y","A","p","p","-","1",".","2",".","3",".","A","p","p","I","m","a","g","e">>

nSp == <<"M","y"," ","A","p","p",".","A","p","p","I","m","a","g","e">>

nUs == <<"m","y","_","a","p","p",".","A","p","p","I","m","a","g","e">>

nRun == <<"m","y","_","a","p","p",".","r","u","n">>

Names == {nEx, nSp, nUs, nRun}

\* directories the user may pass a package from, besides ~/Applications
SrcDirs == {"~/Downloads", "/media/usb"}

InputPaths == [dir : SrcDirs \cup {AppsDir}, name : Names]

d48 == <<"4","8","x","4","8">>

d64 == <<"6","4","x","6","4">>

d128 == <<"1","2","8","x","1","2","8">>

d256 == <<"2","5","6","x","2","5","6">>

d512 == <<"5","1","2","x","5","1","2">>

dScalable == <<"s","c","a","l","a","b","l","e">>

\* a file usr/share/icons/hicolor/<dir>/apps/<file> of an extracted tree
Themed(dir, file) == [dir |-> dir, file |-> file]

\* squashfs-root/.DirIcon
DirIconFile == Themed(<<>>, <<".","D","i","r","I","c","o","n">>)

\* icon_path = None
NoIcon == Themed(<<>>, <<>>)

NoLink == [kind |-> "absent", target |-> NoIcon]

NoPkg == "none"

PkgIds == {"pkThemed", "pkLinked", "pkBroken", "pkPlain", "pkSvg", "pkNone"}

\* the tree a package extracts to: .DirIcon (absent, a regular file, or a
\* symbolic link to a themed path) and the files under hicolor/*/apps/
Tree(p) ==
  CASE p = "pkThemed" ->
         [diricon |-> NoLink,
          files |-> {Themed(d128, <<"m","y","a","p","p",".","p","n","g">>),
                     Themed(d512, <<"m","y","a","p","p",".","p","n","g">>)}]
    [] p = "pkLinked" ->
         [diricon |-> [kind |-> "link",
                       target |-> Themed(d256, <<"a","p","p",".","p","n","g">>)],
          files |-> {Themed(d256, <<"a","p","p",".","p","n","g">>),
                     Themed(d512, <<"a","p","p",".","s","v","g">>)}]
    [] p = "pkBroken" ->
         [diricon |-> [kind |-> "link",
                       target |-> Themed(d256, <<"m","y",".","p","n","g">>)],
          files |-> {Themed(d48, <<"m","y",".","p","n","g">>),
                     Themed(d128, <<"m","y",".","p","n","g">>),
                     Themed(d64, <<"m","y",".","x","p","m">>)}]
    [] p = "pkPlain" ->
         [diricon |-> [kind |-> "file", target |-> NoIcon],
          files |-> {Themed(d64, <<"a",".","p","n","g">>)}]
    [] p = "pkSvg" ->
         [diricon |-> NoLink,
          files |-> {Themed(d64, <<"a",".","p","n","g">>),
                     Themed(dScalable, <<"a",".","s","v","g">>),
                     Themed(d128, <<"a",".","P","N","G">>)}]
    [] OTHER ->
         [diricon |-> NoLink, files |-> {}]

\* the packages lying in the source directories before the first run
InitialSrc ==
  [f \in SrcDirs \X Names |->
     CASE f = <<"~/Downloads", nEx>> -> "pkThemed"
       [] f = <<"~/Downloads", nSp>> -> "pkLinked"
       [] f = <<"~/Downloads", nUs>> -> "pkBroken"
       [] f = <<"~/Downloads", nRun>> -> "pkNone"
       [] f = <<"/media/usb", nEx>> -> "pkPlain"
       [] f = <<"/media/usb", nUs>> -> "pkSvg"
       [] OTHER -> NoPkg]

\* ------------------------------------------------------------------------
\* State
\* ------------------------------------------------------------------------
VARIABLES
  fs,             \* the file system
  fs0,            \* the file system when the current run started
  pc,             \* position of the run inside install_appimage
  appimage_path,  \* the resolved argument of the run
  icon_path,      \* the icon chosen in the extracted tree, or NoIcon
  icon_path_str,  \* the icon reference of the descriptor
  outcome,        \* how the last run ended
  failures,       \* the steps of the current run that raised
  placed,         \* the run placed the package and made it executable
  runs,           \* invocations so far
  installs        \* the names of the runs so far, while all completed cleanly

vars ==
  <<fs, fs0, pc, appimage_path, icon_path, icon_path_str, outcome, failures,
    placed, runs, installs>>

NoEntry == [kind |-> "none", pkg |-> NoPkg, x |-> FALSE]

EmptyMap == [k \in {} |-> NoEntry]

\* f with key k bound to v
Put(f, k, v) == [j \in DOMAIN f \cup {k} |-> IF j = k THEN v ELSE f[j]]

\* ~/Applications/.temp_extraction: whether it exists, and the packages
\* extracted into its squashfs-root, oldest first
NoScratch == [exists |-> FALSE, tree |-> <<>>]

EmptyScratch == [exists |-> TRUE, tree |-> <<>>]

\* a scratch directory an interrupted run left behind with an extracted tree
StaleScratch == [exists |-> TRUE, tree |-> <<"pkSvg">>]

\* a home directory the script has not touched; appsDir says whether
\* ~/Applications exists, scratch what an interrupted run left of
\* ~/Applications/.temp_extraction, dirs the names that are directories there
FreshFs(appsDir, scratch, dirs) ==
  [src       |-> InitialSrc,
   appsDir   |-> appsDir,
   apps      |-> [n \in Names |->
                    IF n \in dirs
                    THEN [kind |-> "dir", pkg |-> NoPkg, x |-> TRUE]
                    ELSE NoEntry],
   scratch   |-> scratch,
   iconsDir  |-> FALSE,
   icons     |-> EmptyMap,
   launchDir |-> FALSE,
   desktop   |-> EmptyMap]

Unset == Str("", <<>>)

NoInstalls == [clean |-> TRUE, names |-> <<>>]

Mixed == [clean |-> FALSE, names |-> <<>>]

Init ==
  /\ \/ fs = FreshFs(FALSE, NoScratch, {})
     \/ \E scratch \in {NoScratch, EmptyScratch, StaleScratch},
           dirs \in {{}, {nUs}} :
          fs = FreshFs(TRUE, scratch, dirs)
  /\ fs0 = fs
  /\ pc = "idle"
  /\ appimage_path = [dir |-> AppsDir, name |-> nEx]
  /\ icon_path = NoIcon
  /\ icon_path_str = Unset
  /\ outcome = "none"
  /\ failures = {}
  /\ placed = FALSE
  /\ runs = 0
  /\ installs = NoInstalls

\* Path.exists() of an input path
Exists(f, path) ==
  IF path.dir = AppsDir
  THEN f.appsDir /\ f.apps[path.name].kind # "none"
  ELSE f.src[<<path.dir, path.name>>] # NoPkg

\* target_path = applications_dir / appimage_path.name
target_path == Str(AppsDir, appimage_path.name)

\* the run ends: return, or an exception that nothing catches
Ends(how) ==
  /\ pc' = "idle"
  /\ outcome' = how
  /\ installs' = IF /\ how = "complete" /\ failures = {} /\ installs.clean
                    /\ fs0.scratch.tree = <<>>
                 THEN [installs EXCEPT !.names = Append(@, appimage_path.name)]
                 ELSE Mixed

\* ------------------------------------------------------------------------
\* install_appimage, step by step
\* ------------------------------------------------------------------------
\* fault variant of ResolveInput: ~/Applications is created before the check
ResolveInput_MkdirFirst(arg) ==
  /\ pc = "idle"
  /\ runs < MaxRuns
  /\ runs' = runs + 1
  /\ appimage_path' = arg
  /\ fs0' = fs
  /\ icon_path' = NoIcon
  /\ icon_path_str' = Unset
  /\ failures' = {}
  /\ placed' = FALSE
  /\ fs' = [fs EXCEPT !.appsDir = TRUE]
  /\ IF Exists(fs, arg)
     THEN pc' = "prepare" /\ outcome' = "running" /\ installs' = installs
     ELSE pc' = "idle" /\ outcome' = "notfound" /\ installs' = Mixed

\* lines 15-18: resolve the argument; a missing file ends the run
ResolveInput(arg) ==
  /\ pc = "idle"
  /\ runs < MaxRuns
  /\ runs' = runs + 1
  /\ appimage_path' = arg
  /\ fs0' = fs
  /\ icon_path' = NoIcon
  /\ icon_path_str' = Unset
  /\ failures' = {}
  /\ placed' = FALSE
  /\ fs' = fs
  /\ IF Exists(fs, arg)
     THEN pc' = "prepare" /\ outcome' = "running" /\ installs' = installs
     ELSE pc' = "idle" /\ outcome' = "notfound" /\ installs' = Mixed

\* lines 20-27: create ~/Applications
PrepareDirectory ==
  /\ pc = "prepare"
  /\ fs' = [fs EXCEPT !.appsDir = TRUE]
  /\ pc' = "move"
  /\ UNCHANGED <<fs0, appimage_path, icon_path, icon_path_str, outcome,
                 failures, placed, runs, installs>>

\* the package file at an input path
PkgAt(f, path) ==
  IF path.dir = AppsDir
  THEN f.apps[path.name].pkg
  ELSE f.src[<<path.dir, path.name>>]

\* shutil.move(src, dst) raises shutil.Error: dst is a directory that
\* already holds an entry named like src
MoveRefused(f, path) ==
  /\ path.dir # AppsDir
  /\ f.apps[path.name].kind = "dir"
  /\ f.apps[path.name].pkg # NoPkg

\* fault variant of Moved: the package is copied, the source stays
Moved_Copy(f, path) ==
  LET n == path.name
      p == f.src[<<path.dir, n>>]
  IN  IF path.dir = AppsDir THEN f
      ELSE [f EXCEPT
              !.apps[n] = IF f.apps[n].kind = "dir"
                          THEN [@ EXCEPT !.pkg = p]
                          ELSE [kind |-> "file", pkg |-> p, x |-> FALSE]]

\* the file system after shutil.move(src, dst) succeeded: a no-op when src
\* is dst, into dst when dst is a directory, else over dst
Moved(f, path) ==
  LET n == path.name
      p == f.src[<<path.dir, n>>]
  IN  IF path.dir = AppsDir THEN f
      ELSE [f EXCEPT
              !.src[<<path.dir, n>>] = NoPkg,
              !.apps[n] = IF f.apps[n].kind = "dir"
                          THEN [@ EXCEPT !.pkg = p]
                          ELSE [kind |-> "file", pkg |-> p, x |-> FALSE]]

\* fault variant of MoveAppImage: no return after a refused move
MoveAppImage_NoReturn ==
  /\ pc = "move"
  /\ UNCHANGED <<fs0, appimage_path, icon_path, icon_path_str, placed, runs>>
  /\ IF MoveRefused(fs, appimage_path)
     THEN /\ fs' = fs
          /\ failures' = failures \cup {"move"}
          /\ pc' = "chmod"
          /\ UNCHANGED <<outcome, installs>>
     ELSE \E ok \in BOOLEAN :
            IF ok \/ appimage_path.dir = AppsDir
            THEN /\ fs' = Moved(fs, appimage_path)
                 /\ pc' = "chmod"
                 /\ UNCHANGED <<outcome, failures, installs>>
            ELSE /\ fs' = fs
                 /\ failures' = failures \cup {"move"}
                 /\ Ends("crashed")

\* lines 33-40: move the package.  A refused move (shutil.Error, source and
\* destination not the same file) ends the run; when the source is the
\* destination the rename is a no-op, and a SameFileError is forgiven by the
\* samefile test; any other OSError (ok = FALSE) is not caught
MoveAppImage ==
  /\ pc = "move"
  /\ UNCHANGED <<fs0, appimage_path, icon_path, icon_path_str, placed, runs>>
  /\ IF MoveRefused(fs, appimage_path)
     THEN /\ fs' = fs
          /\ failures' = failures \cup {"move"}
          /\ Ends("aborted")
     ELSE \E ok \in BOOLEAN :
            IF ok \/ appimage_path.dir = AppsDir
            THEN /\ fs' = Moved(fs, appimage_path)
                 /\ pc' = "chmod"
                 /\ UNCHANGED <<outcome, failures, installs>>
            ELSE /\ fs' = fs
                 /\ failures' = failures \cup {"move"}
                 /\ Ends("crashed")

\* lines 42-44: target_path.chmod(mode | 0o111)
MakeExecutable ==
  /\ pc = "chmod"
  /\ fs' = [fs EXCEPT !.apps[appimage_path.name].x = TRUE]
  /\ placed' = TRUE
  /\ pc' = "mkscratch"
  /\ UNCHANGED <<fs0, appimage_path, icon_path, icon_path_str, outcome,
                 failures, runs, installs>>

\* lines 46-49: temp_dir.mkdir(exist_ok=True), outside the try block
MakeScratch ==
  /\ pc = "mkscratch"
  /\ UNCHANGED <<fs0, appimage_path, icon_path, icon_path_str, placed, runs>>
  /\ \E ok \in BOOLEAN :
       IF ok
       THEN /\ fs' = [fs EXCEPT !.scratch.exists = TRUE]
            /\ pc' = "extract"
            /\ UNCHANGED <<outcome, failures, installs>>
       ELSE /\ fs' = fs
            /\ failures' = failures \cup {"mkscratch"}
            /\ Ends("crashed")

\* ------------------------------------------------------------------------
\* Icon discovery in the extracted tree
\* ------------------------------------------------------------------------
HicolorPrefix ==
  <<"u","s","r","/","s","h","a","r","e","/","i","c","o","n","s","/",
    "h","i","c","o","l","o","r","/">>

\* str(p) of a themed file, relative to squashfs-root
PathStr(p) == HicolorPrefix \o p.dir \o <<"/","a","p","p","s","/">> \o p.file

\* the indices of the extractions that wrote squashfs-root/.DirIcon
DirIconWriters(seq) ==
  {i \in 1..Len(seq) : Tree(seq[i]).diricon.kind # "absent"}

Last(I) == CHOOSE i \in I : \A j \in I : j <= i

\* squashfs-root after the extractions seq into the same scratch directory:
\* --appimage-extract writes into an existing tree, a later file or link
\* replacing an earlier one of the same path
ExtractedTree(seq) ==
  [diricon |-> IF DirIconWriters(seq) = {} THEN NoLink
               ELSE Tree(seq[Last(DirIconWriters(seq))]).diricon,
   files   |-> UNION {Tree(seq[i]).files : i \in 1..Len(seq)}]

\* the package whose extraction wrote the file p of squashfs-root
Origin(seq, p) ==
  IF p = DirIconFile THEN seq[Last(DirIconWriters(seq))]
  ELSE seq[Last({i \in 1..Len(seq) : p \in Tree(seq[i]).files})]

\* the extractions in a scratch directory after pkg is extracted into it
Extracted(seq, pkg) == Append(SelectSeq(seq, LAMBDA q : q # pkg), pkg)

\* (extracted_root / ".DirIcon").exists(): follows a symbolic link
DirIconExists(t) ==
  \/ t.diricon.kind = "file"
  \/ t.diricon.kind = "link" /\ t.diricon.target \in t.files

\* candidate_icons[0].resolve()
ResolveDirIcon(t) ==
  IF t.diricon.kind = "link" THEN t.diricon.target ELSE DirIconFile

\* potential_icon.exists()
IconExists(t, p) ==
  \/ p = DirIconFile /\ t.diricon.kind = "file"
  \/ p \in t.files

\* extracted_root.glob("usr/share/icons/hicolor/*/apps/*" + ext)
Glob(t, ext) == {p \in t.files : EndsWith(p.file, ext)}

\* icon_glob.sort(key=lambda p: str(p)), as an ascending sequence
RECURSIVE SortByStr(_)
SortByStr(S) ==
  IF S = {} THEN <<>>
  ELSE LET m == CHOOSE p \in S :
                  \A q \in S \ {p} : StrLess(PathStr(p), PathStr(q))
       IN  <<m>> \o SortByStr(S \ {m})

\* fault variant of ChooseIcon: the first themed icon in path order
ChooseIcon_First(t) ==
  LET candidate_icons == IF DirIconExists(t) THEN <<DirIconFile>> ELSE <<>>
      icon_glob == Glob(t, <<".","p","n","g">>) \cup Glob(t, <<".","s","v","g">>)
      sorted == SortByStr(icon_glob)
  IN  IF candidate_icons # <<>>
      THEN IF IconExists(t, ResolveDirIcon(t)) THEN ResolveDirIcon(t) ELSE NoIcon
      ELSE IF icon_glob # {} THEN sorted[1] ELSE NoIcon

\* lines 64-91: .DirIcon first, else the last themed icon in path order
ChooseIcon(t) ==
  LET candidate_icons == IF DirIconExists(t) THEN <<DirIconFile>> ELSE <<>>
      icon_glob == Glob(t, <<".","p","n","g">>) \cup Glob(t, <<".","s","v","g">>)
      sorted == SortByStr(icon_glob)
  IN  IF candidate_icons # <<>>
      THEN IF IconExists(t, ResolveDirIcon(t)) THEN ResolveDirIcon(t) ELSE NoIcon
      ELSE IF icon_glob # {} THEN sorted[Len(sorted)] ELSE NoIcon

\* lines 96-98: dest_icon_name
DestIconName(name, icon) ==
  replace(lower(stem(name)), " ", "_") \o MarkerSuffix \o suffix(icon.file)

\* line 120: app_name
AppName(name) == title(replace(stem(name), "_", " "))

\* line 130: desktop_file_name
DesktopFileName(name) == stem(name) \o DesktopExt

\* lines 121-128: desktop_entry_content
DesktopEntry(name, icon) ==
  [Type       |-> "Application",
   Name       |-> AppName(name),
   Exec       |-> Str(AppsDir, name),
   Icon       |-> icon,
   Categories |-> "Utility;",
   Terminal   |-> "false"]

\* fault variant of WriteDesktopFile: the file is opened for appending
WriteDesktopFile_Append(desktop, file, entry) ==
  Put(desktop, file,
      [lines |-> (IF file \in DOMAIN desktop THEN desktop[file].lines ELSE <<>>)
                   \o <<entry>>,
       x |-> TRUE])

\* lines 136-140: open(path, "w"), write, chmod: the file holds this entry only
WriteDesktopFile(desktop, file, entry) ==
  Put(desktop, file, [lines |-> <<entry>>, x |-> TRUE])

\* the bytes of an icon of an extracted tree
IconBytes(pkg, icon) == [pkg |-> pkg, path |-> icon]

\* fault variant of ExtractAppImage: a failed extraction is not caught
ExtractAppImage_Uncaught ==
  /\ pc = "extract"
  /\ UNCHANGED <<fs0, appimage_path, icon_path, placed, runs>>
  /\ \E ok \in BOOLEAN :
       IF ok /\ fs.apps[appimage_path.name].kind = "file"
       THEN /\ fs' = [fs EXCEPT !.scratch.tree =
                             Extracted(@, fs.apps[appimage_path.name].pkg)]
            /\ pc' = "discover"
            /\ UNCHANGED <<icon_path_str, failures, outcome, installs>>
       ELSE /\ fs' = fs
            /\ failures' = failures \cup {"extract"}
            /\ icon_path_str' = icon_path_str
            /\ Ends("crashed")

\* lines 52-62 and 111-113: run target_path --appimage-extract in the
\* scratch directory; a directory cannot be executed; any failure is caught
ExtractAppImage ==
  /\ pc = "extract"
  /\ UNCHANGED <<fs0, appimage_path, icon_path, outcome, placed, runs, installs>>
  /\ \E ok \in BOOLEAN :
       IF ok /\ fs.apps[appimage_path.name].kind = "file"
       THEN /\ fs' = [fs EXCEPT !.scratch.tree =
                             Extracted(@, fs.apps[appimage_path.name].pkg)]
            /\ pc' = "discover"
            /\ UNCHANGED <<icon_path_str, failures>>
       ELSE /\ fs' = fs
            /\ failures' = failures \cup {"extract"}
            /\ icon_path_str' = Fallback
            /\ pc' = "cleanup"

\* lines 64-91
DiscoverIcon ==
  /\ pc = "discover"
  /\ icon_path' = ChooseIcon(ExtractedTree(fs.scratch.tree))
  /\ pc' = "install_icon"
  /\ UNCHANGED <<fs, fs0, appimage_path, icon_path_str, outcome, failures,
                 placed, runs, installs>>

\* lines 93-113: copy the chosen icon to ~/.local/share/icons; a failing
\* copy is caught; without an icon the fallback identifier is used
InstallIcon ==
  /\ pc = "install_icon"
  /\ pc' = "cleanup"
  /\ UNCHANGED <<fs0, appimage_path, icon_path, outcome, placed, runs, installs>>
  /\ IF icon_path # NoIcon
     THEN LET dest == DestIconName(appimage_path.name, icon_path)
          IN  \E ok \in BOOLEAN :
                IF ok
                THEN /\ fs' = [fs EXCEPT
                                 !.iconsDir = TRUE,
                                 !.icons = Put(@, dest,
                                             IconBytes(Origin(fs.scratch.tree,
                                                              icon_path),
                                                       icon_path))]
                     /\ icon_path_str' = Str(IconsDir, dest)
                     /\ failures' = failures
                ELSE /\ fs' = [fs EXCEPT !.iconsDir = TRUE]
                     /\ icon_path_str' = Fallback
                     /\ failures' = failures \cup {"copy"}
     ELSE /\ fs' = fs
          /\ icon_path_str' = Fallback
          /\ failures' = failures

\* fault variant of CleanupScratch: the scratch directory is not removed
CleanupScratch_Skip ==
  /\ pc = "cleanup"
  /\ fs' = fs
  /\ pc' = "register"
  /\ UNCHANGED <<fs0, appimage_path, icon_path, icon_path_str, placed, runs,
                 outcome, failures, installs>>

\* lines 114-117: finally: shutil.rmtree(temp_dir); its failure is not caught
CleanupScratch ==
  /\ pc = "cleanup"
  /\ UNCHANGED <<fs0, appimage_path, icon_path, icon_path_str, placed, runs>>
  /\ IF fs.scratch.exists
     THEN \E ok \in BOOLEAN :
            IF ok
            THEN /\ fs' = [fs EXCEPT !.scratch = NoScratch]
                 /\ pc' = "register"
                 /\ UNCHANGED <<outcome, failures, installs>>
            ELSE /\ fs' = fs
                 /\ failures' = failures \cup {"cleanup"}
                 /\ Ends("crashed")
     ELSE /\ fs' = fs
          /\ pc' = "register"
          /\ UNCHANGED <<outcome, failures, installs>>

\* lines 119-143: write the launcher descriptor
CreateDesktopEntry ==
  /\ pc = "register"
  /\ fs' = [fs EXCEPT
              !.launchDir = TRUE,
              !.desktop = WriteDesktopFile(@, DesktopFileName(appimage_path.name),
                            DesktopEntry(appimage_path.name, icon_path_str))]
  /\ Ends("complete")
  /\ UNCHANGED <<fs0, appimage_path, icon_path, icon_path_str, failures,
                 placed, runs>>

Next ==
  \/ \E arg \in InputPaths : ResolveInput(arg)
  \/ PrepareDirectory
  \/ MoveAppImage
  \/ MakeExecutable
  \/ MakeScratch
  \/ ExtractAppImage
  \/ DiscoverIcon
  \/ InstallIcon
  \/ CleanupScratch
  \/ CreateDesktopEntry

Spec == Init /\ [][Next]_vars

\* ------------------------------------------------------------------------
\* Properties
\* ------------------------------------------------------------------------
\* a run has ended and no other has started
AfterRun == pc = "idle" /\ outcome # "none"

\* the argument of the run named a regular file when the run started
InputWasFile ==
  /\ Exists(fs0, appimage_path)
  /\ appimage_path.dir = AppsDir => fs0.apps[appimage_path.name].kind = "file"

\* the descriptor written for the package of the run
Descriptor == fs.desktop[DesktopFileName(appimage_path.name)]

\* C1 as stated: after a run on an existing file, the file is gone from its
\* original location and an executable file of that name is in ~/Applications
C1_Original ==
  (AfterRun /\ outcome = "complete" /\ InputWasFile) =>
     /\ ~Exists(fs, appimage_path)
     /\ fs.apps[appimage_path.name].kind # "none"
     /\ fs.apps[appimage_path.name].x

\* C1 amended: after a run that got past relocation, an executable entry of
\* the package's name is in ~/Applications and holds the package; the
\* original location is vacated when it is not that destination, and when it
\* is the destination the file stays where it was, only made executable
C1_Amended ==
  (pc = "idle" /\ placed /\ InputWasFile) =>
     LET n == appimage_path.name
     IN  /\ fs.appsDir
         /\ fs.apps[n].kind # "none"
         /\ fs.apps[n].x
         /\ fs.apps[n].pkg = PkgAt(fs0, appimage_path)
         /\ appimage_path.dir # AppsDir => ~Exists(fs, appimage_path)
         /\ appimage_path.dir = AppsDir =>
              /\ Exists(fs, appimage_path)
              /\ fs.apps[n] = [fs0.apps[n] EXCEPT !.x = TRUE]

\* a run moved a package out of a source directory and placed it
C1_Witness ==
  /\ pc = "idle" /\ placed /\ InputWasFile
  /\ appimage_path.dir # AppsDir
  /\ fs0.src[<<appimage_path.dir, appimage_path.name>>] # NoPkg

\* C2 as stated: after any run, on every exit path and from any initial
\* state, no scratch directory remains
C2_Original == AfterRun => ~fs.scratch.exists

\* C2 amended: a run that returns after the icon stage leaves no scratch
\* directory; a run that ends before the icon stage (missing input, failed
\* relocation, failed scratch creation) leaves the scratch directory as it
\* found it; a run whose cleanup raises leaves it on disk
C2_Amended ==
  AfterRun =>
     /\ outcome = "complete" => fs.scratch = NoScratch
     /\ outcome \in {"notfound", "aborted"} => fs.scratch = fs0.scratch
     /\ outcome = "crashed" =>
          IF "cleanup" \in failures
          THEN fs.scratch.exists
          ELSE fs.scratch = fs0.scratch

\* a run found a leftover scratch directory, failed to extract, and removed it
C2_Witness ==
  /\ AfterRun /\ outcome = "complete"
  /\ fs0.scratch.exists
  /\ "extract" \in failures
  /\ ~fs.scratch.exists

\* C5: a missing input ends the run with the file system unchanged
C5_NoSideEffects == (AfterRun /\ outcome = "notfound") => fs = fs0

\* a run on a missing file in a home directory without ~/Applications
C5_Witness ==
  /\ AfterRun /\ outcome = "notfound"
  /\ ~Exists(fs0, appimage_path)
  /\ ~fs0.appsDir

\* C6: once the relocation has failed (other than on the same file), the run
\* is over: no chmod, no scratch directory, no icon, no descriptor; only
\* ~/Applications has been created
C6_AbortAfterFailedMove ==
  "move" \in failures =>
     /\ pc = "idle"
     /\ outcome \in {"aborted", "crashed"}
     /\ ~placed
     /\ fs = [fs0 EXCEPT !.appsDir = TRUE]
     /\ Exists(fs, appimage_path)

\* shutil.move refused the move and the run returned
C6_Witness ==
  /\ AfterRun /\ outcome = "aborted"
  /\ "move" \in failures
  /\ appimage_path.dir # AppsDir

\* the run wrote a descriptor whose icon is the fallback identifier
WroteFallbackDescriptor ==
  /\ outcome = "complete"
  /\ DesktopFileName(appimage_path.name) \in DOMAIN fs.desktop
  /\ Descriptor.lines[Len(Descriptor.lines)].Icon = Fallback

\* C3 as stated: once the package is placed and executable, every failure
\* of the icon stage (scratch creation, extraction, icon copy, cleanup) only
\* downgrades the icon to the fallback, and the descriptor is still written
C3_Original ==
  (pc = "idle" /\ placed /\ failures # {}) => WroteFallbackDescriptor

\* C3 amended: a failure of the extraction or of the icon copy is caught: it
\* sets the icon reference to the fallback identifier and the run goes on to
\* the cleanup, and writes the descriptor unless the cleanup raises; a
\* failure of the scratch creation or of the cleanup ends the run without a
\* descriptor being written
C3_Amended ==
  /\ (pc \in {"cleanup", "register"} /\ failures \cap {"extract", "copy"} # {})
       => icon_path_str = Fallback
  /\ (pc = "idle" /\ placed /\ failures \cap {"extract", "copy"} # {})
       => \/ WroteFallbackDescriptor
          \/ outcome = "crashed" /\ "cleanup" \in failures
  /\ (pc = "idle" /\ placed /\ failures \cap {"mkscratch", "cleanup"} # {})
       => outcome = "crashed" /\ fs.desktop = fs0.desktop

\* the icon copy failed and the run completed with the fallback icon
C3_Witness ==
  /\ pc = "idle" /\ placed
  /\ "copy" \in failures
  /\ WroteFallbackDescriptor

\* C4: a written descriptor names the installed package, which is present
\* at that path, and its icon is the fallback identifier or an icon file
\* that exists in ~/.local/share/icons
C4_DescriptorRefersToInstalledFiles ==
  (AfterRun /\ outcome = "complete" /\ InputWasFile) =>
     LET d == Descriptor.lines[Len(Descriptor.lines)]
     IN  /\ d.Exec = target_path
         /\ fs.apps[d.Exec.name].kind = "file"
         /\ d.Icon # Unset
         /\ \/ d.Icon = Fallback
            \/ d.Icon.dir = IconsDir /\ d.Icon.name \in DOMAIN fs.icons

\* the icon reference a run on this package produces by itself, extracting
\* into an empty scratch directory
OwnIcon ==
  LET n == appimage_path.name
      chosen == ChooseIcon(Tree(fs.apps[n].pkg))
  IN  IF failures # {} \/ chosen = NoIcon
      THEN Fallback
      ELSE Str(IconsDir, DestIconName(n, chosen))

\* C7: after a completed run the descriptor file of the package's name
\* holds exactly the one entry of this run, whatever an earlier run on the
\* same name had written, and no other descriptor file appears or changes
C7_Overwrite ==
  (AfterRun /\ outcome = "complete") =>
     LET file == DesktopFileName(appimage_path.name)
     IN  /\ DOMAIN fs.desktop = DOMAIN fs0.desktop \cup {file}
         /\ \A g \in DOMAIN fs0.desktop \ {file} : fs.desktop[g] = fs0.desktop[g]
         /\ fs.desktop[file].lines =
              <<[Type       |-> "Application",
                 Name       |-> AppName(appimage_path.name),
                 Exec       |-> target_path,
                 Icon       |-> IF fs0.scratch.tree = <<>>
                                THEN OwnIcon ELSE icon_path_str,
                 Categories |-> "Utility;",
                 Terminal   |-> "false"]>>

\* two completed runs on the same name, the second replacing a descriptor
\* with another icon reference
C7_Witness ==
  /\ AfterRun /\ outcome = "complete"
  /\ installs.clean /\ Len(installs.names) = 2
  /\ installs.names[1] = installs.names[2]
  /\ DesktopFileName(appimage_path.name) \in DOMAIN fs0.desktop
  /\ fs0.desktop[DesktopFileName(appimage_path.name)] # Descriptor

\* the themed icons of a tree that the two glob patterns match
C8_Matches(t) ==
  {p \in t.files : \E ext \in {<<".","p","n","g">>, <<".","s","v","g">>} :
                      EndsWith(p.file, ext)}

\* the icon C8 prescribes for a tree
C8_Expected(t) ==
  IF t.diricon.kind = "file" THEN DirIconFile
  ELSE IF t.diricon.kind = "link" /\ t.diricon.target \in t.files
       THEN t.diricon.target
  ELSE IF C8_Matches(t) # {}
       THEN CHOOSE p \in C8_Matches(t) :
              \A q \in C8_Matches(t) :
                 q = p \/ StrLess(PathStr(q), PathStr(p))
  ELSE NoIcon

\* C8: the chosen icon is the resolved .DirIcon when it exists, else the
\* themed icon whose path sorts last, else none; without a candidate no
\* icon file is installed and the descriptor uses the fallback identifier
C8_Priority ==
  /\ pc = "install_icon" =>
       icon_path = C8_Expected(ExtractedTree(fs.scratch.tree))
  /\ (pc = "cleanup" /\ "extract" \notin failures
        /\ C8_Expected(ExtractedTree(fs.scratch.tree)) = NoIcon)
       => icon_path_str = Fallback /\ fs.icons = fs0.icons
  /\ (AfterRun /\ outcome = "complete" /\ icon_path_str = Fallback)
       => /\ Descriptor.lines[Len(Descriptor.lines)].Icon = Fallback
          /\ fs.icons = fs0.icons

\* a tree whose .DirIcon link is broken: the themed icon that sorts last
\* (48x48) is chosen, not the larger 128x128
C8_Witness ==
  /\ pc = "install_icon"
  /\ fs.scratch.tree = <<"pkBroken">>
  /\ icon_path = Themed(d48, <<"m","y",".","p","n","g">>)

\* the run of the worked example: MyApp-1.2.3.AppImage with themed PNG icons
\* at 128x128 and 512x512, extracted into an empty scratch directory, nothing
\* failing
C9_ExampleRun ==
  /\ AfterRun /\ outcome = "complete" /\ failures = {}
  /\ fs0.scratch.tree = <<>>
  /\ appimage_path.name = nEx
  /\ fs.apps[nEx].kind = "file" /\ fs.apps[nEx].pkg = "pkThemed"

C9_Bytes512 ==
  IconBytes("pkThemed", Themed(d512, <<"m","y","a","p","p",".","p","n","g">>))

\* C9 as stated: the icon is myapp-1.2.3.appimage_appimage_icon.png and the
\* Name= line reads "Myapp 1.2.3.Appimage"
C9_Original ==
  C9_ExampleRun =>
     LET icon == <<"m","y","a","p","p","-","1",".","2",".","3",".",
                   "a","p","p","i","m","a","g","e">>
                 \o MarkerSuffix \o <<".","p","n","g">>
     IN  /\ icon \in DOMAIN fs.icons
         /\ fs.icons[icon] = C9_Bytes512
         /\ Descriptor.lines[1].Name =
              <<"M","y","a","p","p"," ","1",".","2",".","3",".",
                "A","p","p","i","m","a","g","e">>

\* C9 amended: the icon is myapp-1.2.3_appimage_icon.png (the .AppImage
\* suffix is not part of the name), with the bytes of the 512x512 variant,
\* and the Name= line reads "Myapp-1.2.3"
C9_Amended ==
  C9_ExampleRun =>
     LET icon == <<"m","y","a","p","p","-","1",".","2",".","3">>
                 \o MarkerSuffix \o <<".","p","n","g">>
     IN  /\ DOMAIN fs.icons \ DOMAIN fs0.icons \subseteq {icon}
         /\ icon \in DOMAIN fs.icons
         /\ fs.icons[icon] = C9_Bytes512
         /\ Descriptor.lines[1].Icon = Str(IconsDir, icon)
         /\ Descriptor.lines[1].Name =
              <<"M","y","a","p","p","-","1",".","2",".","3">>

\* the worked example of C9 has run
C9_Witness == C9_ExampleRun /\ Len(Descriptor.lines) = 1

\* the names installed so far, all by runs that completed without a failure
\* and no name twice
CleanDistinctInstalls ==
  /\ pc = "idle"
  /\ installs.clean
  /\ \A i, j \in 1..Len(installs.names) :
        installs.names[i] = installs.names[j] => i = j

\* C10: after successful runs on distinct packages, every descriptor's icon
\* file holds the icon of the package its Exec names, and every installed
\* package has a descriptor whose Exec names it
C10_DescriptorsKeepTheirArtefacts ==
  CleanDistinctInstalls =>
     /\ \A file \in DOMAIN fs.desktop :
          LET d == fs.desktop[file].lines[1]
          IN  d.Icon # Fallback =>
                /\ d.Icon.name \in DOMAIN fs.icons
                /\ fs.icons[d.Icon.name].pkg = fs.apps[d.Exec.name].pkg
     /\ \A i \in 1..Len(installs.names) :
          \E file \in DOMAIN fs.desktop :
             fs.desktop[file].lines[1].Exec = Str(AppsDir, installs.names[i])

====
